---- MODULE Spec2Model ----
(***************************************************************************)
(* Role gate of the tienda application: the decorator rol_requerido of     *)
(* tienda/views.py, the PerfilUsuario model of tienda/models.py that it    *)
(* reads, the admin edits of tienda/admin.py that change what it reads,    *)
(* and the users created by sistema_tienda/crear_usuarios_con_roles.py.    *)
(*                                                                         *)
(* Python strings that the code computes with (role names, notification    *)
(* texts) are sequences of one-character strings.  A character outside     *)
(* ASCII is written as its code point, "U+00F3".  User names, URL names    *)
(* and message levels are only compared, and are TLA+ strings.             *)
(***************************************************************************)
EXTENDS Integers, Sequences, FiniteSets, TLC

(* ------------------------------ bounds --------------------------------- *)

\* requests served in one behaviour of Spec
MaxRequests == 2

\* gate evaluations in one behaviour of SpecGate
MaxEvals == 1

\* admin edits of the PerfilUsuario table in one behaviour
MaxEdits == 1

\* roles declared on one rol_requerido decorator
MaxRoles == 2

(* --------------------------- string constants -------------------------- *)

vendedor ==
  <<"v", "e", "n", "d", "e", "d", "o", "r">>

gerente ==
  <<"g", "e", "r", "e", "n", "t", "e">>

administrador ==
  <<"a", "d", "m", "i", "n", "i", "s", "t", "r", "a", "d", "o", "r">>

\* PerfilUsuario.ROLES: (value, label) pairs
ROLES ==
  << <<vendedor, <<"V", "e", "n", "d", "e", "d", "o", "r">> >>,
     <<gerente, <<"G", "e", "r", "e", "n", "t", "e">> >>,
     <<administrador,
       <<"A", "d", "m", "i", "n", "i", "s", "t", "r", "a", "d", "o", "r">> >> >>

\* the values a PerfilUsuario.rol takes
Roles == {ROLES[i][1] : i \in DOMAIN ROLES}

\* 'Debes iniciar sesión para acceder'
MSG_LOGIN ==
  <<"D", "e", "b", "e", "s", " ", "i", "n", "i", "c", "i", "a", "r", " ",
    "s", "e", "s", "i", "U+00F3", "n", " ", "p", "a", "r", "a", " ", "a", "c",
    "c", "e", "d", "e", "r">>

\* '⚠️ Acceso denegado. Se requiere rol: ', the literal part of the f-string
MSG_ROL ==
  <<"U+26A0", "U+FE0F", " ", "A", "c", "c", "e", "s", "o", " ", "d", "e", "n", "e",
    "g", "a", "d", "o", ".", " ", "S", "e", " ", "r", "e", "q", "u", "i",
    "e", "r", "e", " ", "r", "o", "l", ":", " ">>

\* '⚠️ Tu cuenta no tiene un perfil asignado. Contacta al administrador.'
MSG_SIN_PERFIL ==
  <<"U+26A0", "U+FE0F", " ", "T", "u", " ", "c", "u", "e", "n", "t", "a", " ", "n",
    "o", " ", "t", "i", "e", "n", "e", " ", "u", "n", " ", "p", "e", "r",
    "f", "i", "l", " ", "a", "s", "i", "g", "n", "a", "d", "o", ".", " ",
    "C", "o", "n", "t", "a", "c", "t", "a", " ", "a", "l", " ", "a", "d",
    "m", "i", "n", "i", "s", "t", "r", "a", "d", "o", "r", ".">>

(* ------------------------------ str methods ---------------------------- *)

Minusculas ==
  <<"a", "b", "c", "d", "e", "f", "g", "h", "i", "j", "k", "l", "m",
    "n", "o", "p", "q", "r", "s", "t", "u", "v", "w", "x", "y", "z">>

Mayusculas ==
  <<"A", "B", "C", "D", "E", "F", "G", "H", "I", "J", "K", "L", "M",
    "N", "O", "P", "Q", "R", "S", "T", "U", "V", "W", "X", "Y", "Z">>

\* str.upper() of one character (the role names are ASCII)
upper(c) ==
  IF \E i \in DOMAIN Minusculas : Minusculas[i] = c
  THEN Mayusculas[CHOOSE i \in DOMAIN Minusculas : Minusculas[i] = c]
  ELSE c

\* str.lower() of one character
lower(c) ==
  IF \E i \in DOMAIN Mayusculas : Mayusculas[i] = c
  THEN Minusculas[CHOOSE i \in DOMAIN Mayusculas : Mayusculas[i] = c]
  ELSE c

\* str.capitalize(): first character upper-cased, the others lower-cased
capitalize(r) ==
  [i \in 1..Len(r) |-> IF i = 1 THEN upper(r[i]) ELSE lower(r[i])]

\* sep.join(xs)
RECURSIVE join(_, _)
join(sep, xs) ==
  IF Len(xs) = 0 THEN <<>>
  ELSE IF Len(xs) = 1 THEN xs[1]
  ELSE xs[1] \o sep \o join(sep, Tail(xs))

(* ------------------------- PerfilUsuario methods ----------------------- *)

es_vendedor(self) ==
  self.rol = vendedor

es_gerente(self) ==
  self.rol = gerente

es_administrador(self) ==
  self.rol = administrador

\* every role may read
tiene_permiso_lectura(self) ==
  TRUE

\* mutant: the list of the writers lost 'administrador'
tiene_permiso_escritura_gerente(self) ==
  \E i \in 1..1 : <<gerente>>[i] = self.rol

\* self.rol in ['gerente', 'administrador']
tiene_permiso_escritura(self) ==
  \E i \in 1..2 : <<gerente, administrador>>[i] = self.rol

tiene_permiso_eliminacion(self) ==
  self.rol = administrador

(* ------------------------------- the gate ------------------------------ *)

\* mutant: ', '.join(roles_permitidos), the names as declared
roles_texto_sin_capitalize(roles) ==
  join(<<",", " ">>, roles)

\* ', '.join([r.capitalize() for r in roles_permitidos])
roles_texto(roles) ==
  join(<<",", " ">>, [i \in DOMAIN roles |-> capitalize(roles[i])])

\* mutant: perfil.rol == roles_permitidos[0]
rol_en_permitidos_primero(rol, roles) ==
  Len(roles) > 0 /\ roles[1] = rol

\* perfil.rol in roles_permitidos
rol_en_permitidos(rol, roles) ==
  \E i \in DOMAIN roles : roles[i] = rol

\* messages.error(request, texto): one entry of the request's message queue
error(texto) ==
  [level |-> "error", message |-> texto]

\* redirect(nombre)
redirect(nombre) ==
  [tipo |-> "redirect", valor |-> nombre]

\* the response of a request whose view has not returned yet
Pendiente ==
  [tipo |-> "pendiente", valor |-> ""]

\* mutant: the unauthenticated caller is sent to 'home'
denegar_login_home ==
  [llamar |-> FALSE, messages |-> <<error(MSG_LOGIN)>>,
   response |-> redirect("home")]

\* branch 1: not authenticated
denegar_login ==
  [llamar |-> FALSE, messages |-> <<error(MSG_LOGIN)>>,
   response |-> redirect("login")]

\* branches 2 and 4a: return view_func(request, *args, **kwargs)
permitir ==
  [llamar |-> TRUE, messages |-> <<>>, response |-> Pendiente]

\* branch 4b: the role is not one of roles_permitidos
denegar_rol(roles) ==
  [llamar |-> FALSE, messages |-> <<error(MSG_ROL \o roles_texto(roles))>>,
   response |-> redirect("home")]

\* mutant: the caller without a profile is sent to 'login'
denegar_sin_perfil_login ==
  [llamar |-> FALSE, messages |-> <<error(MSG_SIN_PERFIL)>>,
   response |-> redirect("login")]

\* branch 3: PerfilUsuario.DoesNotExist
denegar_sin_perfil ==
  [llamar |-> FALSE, messages |-> <<error(MSG_SIN_PERFIL)>>,
   response |-> redirect("home")]

\* mutant: the profile is looked up before the superuser flag is tested
Gate_perfil_primero(user, filas, roles) ==
  IF ~user.is_authenticated THEN denegar_login
  ELSE IF DOMAIN filas = {} THEN denegar_sin_perfil
  ELSE IF user.is_superuser THEN permitir
  ELSE LET perfil == filas[user.username] IN
       IF rol_en_permitidos(perfil.rol, roles) THEN permitir
       ELSE denegar_rol(roles)

\* mutant: the role counts only for a profile with activo = True
Gate_activo(user, filas, roles) ==
  IF ~user.is_authenticated THEN denegar_login
  ELSE IF user.is_superuser THEN permitir
  ELSE IF DOMAIN filas = {} THEN denegar_sin_perfil
  ELSE LET perfil == filas[user.username] IN
       IF perfil.activo /\ rol_en_permitidos(perfil.rol, roles) THEN permitir
       ELSE denegar_rol(roles)

\* _wrapped_view up to the call of view_func.  user is request.user, filas
\* the rows of PerfilUsuario whose user is request.user (none or one), roles
\* the closure's roles_permitidos.
Gate(user, filas, roles) ==
  IF ~user.is_authenticated THEN denegar_login
  ELSE IF user.is_superuser THEN permitir
  ELSE IF DOMAIN filas = {} THEN denegar_sin_perfil
  ELSE LET perfil == filas[user.username] IN
       IF rol_en_permitidos(perfil.rol, roles) THEN permitir
       ELSE denegar_rol(roles)

(* ------------------------------- the state ----------------------------- *)

VARIABLES
  auth_user,         \* the User table: username -> [is_superuser]
  PerfilUsuario,     \* the PerfilUsuario table, keyed by its user (one to one)
  roles_permitidos,  \* the allow-list captured by the decorator's closure
  requests,          \* the requests that reached the wrapped view, in order
  ediciones,         \* admin edits made so far
  vista              \* the name of the function the decorators wrap

vars ==
  <<auth_user, PerfilUsuario, roles_permitidos, requests, ediciones, vista>>

\* the users of crear_usuarios_con_roles.py; password, departamento and
\* telefono are read by no operation of the gate
usuarios ==
  << [username |-> "vendedor1", rol |-> vendedor],
     [username |-> "gerente1", rol |-> gerente],
     [username |-> "admin1", rol |-> administrador] >>

\* the superuser that serves the admin site (createsuperuser); no profile
Superusuario == "root"

Usernames == {usuarios[i].username : i \in DOMAIN usuarios} \cup {Superusuario}

\* request.user of a request with no session
AnonymousUser ==
  [username |-> "AnonymousUser", is_authenticated |-> FALSE,
   is_superuser |-> FALSE]

\* request.user of a request with the session of u
request_user(u) ==
  [username |-> u, is_authenticated |-> TRUE,
   is_superuser |-> auth_user[u].is_superuser]

\* a row of PerfilUsuario; activo defaults to True
Fila(rol, activo) ==
  [rol |-> rol, activo |-> activo]

\* a name a decorator declares that is no value of ROLES
ADMIN ==
  <<"A", "D", "M", "I", "N">>

Declarables == Roles \cup {ADMIN}

\* the argument tuples of rol_requerido(*roles_permitidos): any names in any
\* order, none, or up to MaxRoles of them, no name twice
AllowLists ==
  {t \in UNION {[1..n -> Declarables] : n \in 0..MaxRoles} :
     \A i, j \in DOMAIN t : t[i] = t[j] => i = j}

\* the argument tuples the decorators of views.py declare
Declarados ==
  {<<gerente, administrador>>, <<administrador>>}

\* what a wrapped view returns
Resultados == {"render", "redirect"}

\* the rows of PerfilUsuario whose user is u: none or one (OneToOneField)
filas_de(u) ==
  [x \in (DOMAIN PerfilUsuario \cap {u}) |-> PerfilUsuario[x]]

\* the state after crear_usuarios_con_roles.py ran on an empty database that
\* holds the superuser: every user of the script has its profile
crear_usuarios_con_roles ==
  /\ auth_user = [u \in Usernames |-> [is_superuser |-> (u = Superusuario)]]
  /\ PerfilUsuario =
       [u \in {usuarios[i].username : i \in DOMAIN usuarios} |->
          Fila((CHOOSE d \in {usuarios[i] : i \in DOMAIN usuarios} :
                  d.username = u).rol, TRUE)]

\* the views module has been imported: a decorator of views.py holds its
\* allow-list, and no request has arrived
Init ==
  /\ crear_usuarios_con_roles
  /\ roles_permitidos \in Declarados
  /\ requests = <<>>
  /\ ediciones = 0
  /\ vista = "view_func"

\* the decorator applied with any argument tuple
InitGate ==
  /\ crear_usuarios_con_roles
  /\ roles_permitidos \in AllowLists
  /\ requests = <<>>
  /\ ediciones = 0
  /\ vista = "view_func"

(* ------------------------------ requests ------------------------------- *)

\* the record of a request that reached _wrapped_view.  filas is what the
\* table held for the user when the gate ran and resultado what view_func
\* returned (both kept for the properties); llamadas counts the calls of
\* view_func.
Peticion(user, filas, g) ==
  [user |-> user, filas |-> filas,
   pc |-> IF g.llamar THEN "view" ELSE "done",
   llamadas |-> IF g.llamar THEN 1 ELSE 0,
   messages |-> g.messages, response |-> g.response, resultado |-> ""]

\* mutant: the gate keeps the profile it read for the user's first request
wrapped_view_cache(user) ==
  /\ LET filas == filas_de(user.username)
         antes == {i \in DOMAIN requests : requests[i].user = user}
         leidas == IF antes = {} THEN filas
                   ELSE requests[CHOOSE i \in antes :
                                   \A j \in antes : i <= j].filas
         g == Gate(user, leidas, roles_permitidos)
     IN requests' = Append(requests, Peticion(user, filas, g))
  /\ UNCHANGED <<auth_user, PerfilUsuario, roles_permitidos, ediciones, vista>>

\* mutant: roles_permitidos is a list and the denial pops its names to build
\* the text
wrapped_view_pop(user) ==
  /\ LET filas == filas_de(user.username)
         g == Gate(user, filas, roles_permitidos)
     IN /\ requests' = Append(requests, Peticion(user, filas, g))
        /\ roles_permitidos' =
             IF g = denegar_rol(roles_permitidos) THEN <<>>
             ELSE roles_permitidos
  /\ UNCHANGED <<auth_user, PerfilUsuario, ediciones, vista>>

\* a request of `user` reaches _wrapped_view: the gate runs to the call of
\* view_func or to its redirect.  request.user was loaded from auth_user and
\* is_superuser never changes, so the one read that can race with an edit is
\* request.user.perfil, and it is a single read.
wrapped_view(user) ==
  /\ LET filas == filas_de(user.username)
         g == Gate(user, filas, roles_permitidos)
     IN requests' = Append(requests, Peticion(user, filas, g))
  /\ UNCHANGED <<auth_user, PerfilUsuario, roles_permitidos, ediciones, vista>>

\* mutant: view_func is called without `return`, the wrapper returns None
devolver_none(res) ==
  [tipo |-> "view", valor |-> "None"]

\* return view_func(request, *args, **kwargs): view_func returned res
devolver(res) ==
  [tipo |-> "view", valor |-> res]

\* view_func of request i returns res, and _wrapped_view returns it
view_func_return(i, res) ==
  /\ requests[i].pc = "view"
  /\ requests' = [requests EXCEPT ![i].pc = "done", ![i].resultado = res,
                                  ![i].response = devolver(res)]
  /\ UNCHANGED <<auth_user, PerfilUsuario, roles_permitidos, ediciones, vista>>

(* ------------------------------ admin site ----------------------------- *)

\* list_editable 'rol': the change list saves a new rol for the row of u
cambiar_rol(u, rol) ==
  /\ ediciones < MaxEdits
  /\ u \in DOMAIN PerfilUsuario
  /\ PerfilUsuario[u].rol # rol
  /\ PerfilUsuario' = [PerfilUsuario EXCEPT ![u].rol = rol]
  /\ ediciones' = ediciones + 1
  /\ UNCHANGED <<auth_user, roles_permitidos, requests, vista>>

\* list_editable 'activo': the change list flips activo for the row of u
cambiar_activo(u) ==
  /\ ediciones < MaxEdits
  /\ u \in DOMAIN PerfilUsuario
  /\ PerfilUsuario' = [PerfilUsuario EXCEPT ![u].activo = ~PerfilUsuario[u].activo]
  /\ ediciones' = ediciones + 1
  /\ UNCHANGED <<auth_user, roles_permitidos, requests, vista>>

\* the registered ModelAdmin deletes the row of u
eliminar_perfil(u) ==
  /\ ediciones < MaxEdits
  /\ u \in DOMAIN PerfilUsuario
  /\ PerfilUsuario' = [x \in DOMAIN PerfilUsuario \ {u} |-> PerfilUsuario[x]]
  /\ ediciones' = ediciones + 1
  /\ UNCHANGED <<auth_user, roles_permitidos, requests, vista>>

\* the registered ModelAdmin adds a row for a user that has none
agregar_perfil(u, rol) ==
  /\ ediciones < MaxEdits
  /\ u \in Usernames \ DOMAIN PerfilUsuario
  /\ PerfilUsuario' =
       [x \in DOMAIN PerfilUsuario \cup {u} |->
          IF x = u THEN Fila(rol, TRUE) ELSE PerfilUsuario[x]]
  /\ ediciones' = ediciones + 1
  /\ UNCHANGED <<auth_user, roles_permitidos, requests, vista>>

\* an admin edit of the PerfilUsuario table
Admin ==
  \/ \E u \in Usernames, rol \in Roles : cambiar_rol(u, rol)
  \/ \E u \in Usernames : cambiar_activo(u)
  \/ \E u \in Usernames : eliminar_perfil(u)
  \/ \E u \in Usernames, rol \in Roles : agregar_perfil(u, rol)

\* a request arrives, with a session or without one
Llega ==
  \/ \E u \in Usernames : wrapped_view(request_user(u))
  \/ wrapped_view(AnonymousUser)

\* a running view returns
Retorna ==
  \E i \in DOMAIN requests, res \in Resultados : view_func_return(i, res)

Next ==
  \/ Len(requests) < MaxRequests /\ Llega
  \/ Retorna
  \/ Admin

Spec == Init /\ [][Next]_vars

\* the gate alone: requests arrive and are decided between admin edits; what
\* happens once view_func has the request is left to Spec
NextGate ==
  \/ Len(requests) < MaxEvals /\ Llega
  \/ Admin

SpecGate == InitGate /\ [][NextGate]_vars

(* --------------------------- the views of views.py --------------------- *)

\* a view under @login_required alone
sin_rol ==
  [rol_requerido |-> FALSE, roles |-> <<>>]

\* a view under @login_required and @rol_requerido(*roles)
con_rol(roles) ==
  [rol_requerido |-> TRUE, roles |-> roles]

\* the CRUD views of views.py with the decorators each one carries
Vistas ==
  [producto_lista |-> sin_rol,
   producto_crear |-> con_rol(<<gerente, administrador>>),
   producto_editar |-> con_rol(<<gerente, administrador>>),
   producto_eliminar |-> con_rol(<<administrador>>),
   categoria_lista |-> con_rol(<<gerente, administrador>>),
   categoria_crear |-> con_rol(<<gerente, administrador>>),
   categoria_editar |-> con_rol(<<gerente, administrador>>),
   categoria_eliminar |-> con_rol(<<administrador>>),
   proveedor_lista |-> con_rol(<<gerente, administrador>>),
   proveedor_crear |-> con_rol(<<gerente, administrador>>),
   proveedor_editar |-> con_rol(<<gerente, administrador>>),
   proveedor_eliminar |-> con_rol(<<administrador>>),
   cliente_lista |-> sin_rol,
   cliente_crear |-> sin_rol,
   cliente_editar |-> con_rol(<<gerente, administrador>>),
   cliente_eliminar |-> con_rol(<<administrador>>)]

\* the views module has been imported and the behaviour follows the requests
\* of one of its views; a view without rol_requerido has no allow-list
InitVistas ==
  /\ crear_usuarios_con_roles
  /\ vista \in DOMAIN Vistas
  /\ roles_permitidos = Vistas[vista].roles
  /\ requests = <<>>
  /\ ediciones = 0

\* login_required sends a caller that is not authenticated to the login page
\* and queues nothing
ir_a_login ==
  [llamar |-> FALSE, messages |-> <<>>, response |-> redirect("login")]

\* a request of `user` for the view: login_required, the outer decorator,
\* runs first, then _wrapped_view if the view has one, then the view
login_required(user) ==
  IF ~user.is_authenticated
  THEN /\ requests' =
            Append(requests, Peticion(user, filas_de(user.username), ir_a_login))
       /\ UNCHANGED <<auth_user, PerfilUsuario, roles_permitidos, ediciones,
                      vista>>
  ELSE IF Vistas[vista].rol_requerido
  THEN wrapped_view(user)
  ELSE /\ requests' =
            Append(requests, Peticion(user, filas_de(user.username), permitir))
       /\ UNCHANGED <<auth_user, PerfilUsuario, roles_permitidos, ediciones,
                      vista>>

\* a request for the view arrives, with a session or without one
LlegaVista ==
  \/ \E u \in Usernames : login_required(request_user(u))
  \/ login_required(AnonymousUser)

NextVistas ==
  \/ Len(requests) < MaxEvals /\ LlegaVista
  \/ Admin

SpecVistas == InitVistas /\ [][NextVistas]_vars

TypeOK ==
  /\ DOMAIN PerfilUsuario \subseteq Usernames
  /\ \A u \in DOMAIN PerfilUsuario : PerfilUsuario[u].rol \in Roles
  /\ \A i \in DOMAIN requests : requests[i].pc \in {"view", "done"}

(* ------------------------------ properties ----------------------------- *)

\* the requests served so far
Reqs == {requests[i] : i \in DOMAIN requests}

\* the roles the decorator declares
Permitidos == {roles_permitidos[k] : k \in DOMAIN roles_permitidos}

\* Allow: the wrapped view was called
Ejecutada(r) == r.llamadas = 1

\* Deny with one error notification of the given text and a redirect
Denegada(r, texto, destino) ==
  /\ r.llamadas = 0
  /\ r.pc = "done"
  /\ r.messages = << [level |-> "error", message |-> texto] >>
  /\ r.response = [tipo |-> "redirect", valor |-> destino]

\* an authenticated caller that is no superuser and has a Profile
ConPerfil(r) ==
  r.user.is_authenticated /\ ~r.user.is_superuser /\ DOMAIN r.filas # {}

\* an authenticated caller that is no superuser and has no Profile
SinPerfil(r) ==
  r.user.is_authenticated /\ ~r.user.is_superuser /\ DOMAIN r.filas = {}

\* the Profile the table held for the caller
PerfilDe(r) == r.filas[r.user.username]

Empieza(texto, prefijo) ==
  Len(texto) >= Len(prefijo) /\ SubSeq(texto, 1, Len(prefijo)) = prefijo

Contiene(texto, parte) ==
  \E k \in 0..(Len(texto) - Len(parte)) :
    SubSeq(texto, k + 1, k + Len(parte)) = parte

\* the insufficient-role outcome: not run, one error notification that starts
\* with the access-denied text, redirect to 'home'
DenegadaPorRol(r) ==
  /\ r.llamadas = 0
  /\ r.pc = "done"
  /\ Len(r.messages) = 1
  /\ r.messages[1].level = "error"
  /\ Empieza(r.messages[1].message, MSG_ROL)
  /\ r.response = [tipo |-> "redirect", valor |-> "home"]

\* C1: for a non-superuser authenticated caller with a Profile the gate runs
\* the view iff the Profile's rol is one of the declared roles, and otherwise
\* denies with the insufficient-role outcome and a redirect to 'home'.
C1_RolDecide ==
  \A r \in Reqs :
    ConPerfil(r) =>
      IF PerfilDe(r).rol \in Permitidos
      THEN Ejecutada(r) /\ r.messages = <<>>
      ELSE DenegadaPorRol(r)

\* gerente1, a manager, was let through the allow-list (gerente, administrador)
C1_Witness ==
  /\ roles_permitidos = <<gerente, administrador>>
  /\ \E r \in Reqs :
       /\ ConPerfil(r)
       /\ r.user.username = "gerente1"
       /\ PerfilDe(r).rol = gerente
       /\ Ejecutada(r)

\* C2: a request with no authenticated identity is denied with the 'must sign
\* in' error notification and a redirect to 'login', whatever the allow-list.
C2_NoAutenticado ==
  \A r \in Reqs :
    ~r.user.is_authenticated => Denegada(r, MSG_LOGIN, "login")

\* an anonymous request was denied by a gate that declares roles
C2_Witness ==
  /\ roles_permitidos # <<>>
  /\ \E r \in Reqs :
       ~r.user.is_authenticated /\ Denegada(r, MSG_LOGIN, "login")

\* C3: a superuser is let through, and the view run, whatever the allow-list
\* holds and whether or not the superuser has a Profile.
C3_Superusuario ==
  \A r \in Reqs :
    (r.user.is_authenticated /\ r.user.is_superuser) =>
      /\ Ejecutada(r)
      /\ r.messages = <<>>
      /\ r.response.tipo # "redirect"

\* a superuser with a Profile whose rol is not declared went through an
\* allow-list that names none of the three roles
C3_Witness ==
  /\ Permitidos \cap Roles = {}
  /\ \E r \in Reqs :
       /\ r.user.is_authenticated /\ r.user.is_superuser
       /\ DOMAIN r.filas # {}
       /\ PerfilDe(r).rol \notin Permitidos
       /\ Ejecutada(r)

\* C4: an authenticated caller that is no superuser and has no Profile is
\* denied with the contact-the-administrator error notification and a redirect
\* to 'home', and the view is not run.
C4_SinPerfil ==
  \A r \in Reqs :
    SinPerfil(r) => Denegada(r, MSG_SIN_PERFIL, "home")

\* a user whose Profile was deleted met a gate that declares vendedor
C4_Witness ==
  /\ vendedor \in Permitidos
  /\ \E r \in Reqs : SinPerfil(r) /\ Denegada(r, MSG_SIN_PERFIL, "home")

\* C5: every request is in exactly one of two outcomes.  Allow: the view was
\* called once, the gate queued nothing, and once the view returned the
\* response is what it returned.  Deny: the view was never called and the
\* response is a redirect with one error notification.
C5_PermiteODeniega ==
  \A r \in Reqs :
    \/ /\ r.llamadas = 1
       /\ r.messages = <<>>
       /\ \/ r.pc = "view" /\ r.response.tipo = "pendiente"
          \/ /\ r.pc = "done"
             /\ r.resultado \in Resultados
             /\ r.response = [tipo |-> "view", valor |-> r.resultado]
    \/ /\ r.llamadas = 0
       /\ r.pc = "done"
       /\ r.resultado = ""
       /\ r.response.tipo = "redirect"
       /\ Len(r.messages) = 1
       /\ r.messages[1].level = "error"

\* one request was allowed and its view returned, another one was denied
C5_Witness ==
  /\ \E r \in Reqs :
       r.llamadas = 1 /\ r.pc = "done" /\ r.response.valor = "render"
  /\ \E r \in Reqs : r.llamadas = 0 /\ r.response.tipo = "redirect"

\* what the gate decided for request i: whether the view was called and what
\* the gate queued
Decidido(rs, i) == <<rs[i].llamadas, rs[i].messages>>

\* C6: in every step, a request that arrives is decided from the Profile the
\* table holds at that moment (no role or decision is kept from an earlier
\* request of the user), and a request already decided keeps its decision
\* whatever the table becomes: an allowed one stays allowed until its view
\* returns, a finished one is not touched.
C6_LeeElRolActual ==
  [][\A i \in DOMAIN requests' :
       IF i \in DOMAIN requests
       THEN /\ Decidido(requests', i) = Decidido(requests, i)
            /\ requests[i].pc = "done" => requests'[i] = requests[i]
            /\ requests'[i].pc = "done" /\ requests[i].llamadas = 1
                 => requests'[i].response.tipo = "view"
       ELSE LET u == requests'[i].user IN
            (/\ u.is_authenticated
             /\ ~u.is_superuser
             /\ u.username \in DOMAIN PerfilUsuario)
            => (requests'[i].llamadas = 1
                  <=> PerfilUsuario[u.username].rol \in Permitidos)]_vars

\* a user's request was allowed and its view is still running, the user's rol
\* was changed to one the gate does not declare, and the user's next request
\* was denied for insufficient role
C6_Witness ==
  \E i, j \in DOMAIN requests :
    /\ i < j
    /\ requests[i].user = requests[j].user
    /\ ConPerfil(requests[i])
    /\ Ejecutada(requests[i])
    /\ requests[i].pc = "view"
    /\ requests[i].user.username \in DOMAIN PerfilUsuario
    /\ PerfilUsuario[requests[i].user.username].rol \notin Permitidos
    /\ DenegadaPorRol(requests[j])

\* C7: of every stored Profile, tiene_permiso_escritura holds iff rol is
\* gerente or administrador, tiene_permiso_eliminacion iff rol is
\* administrador, tiene_permiso_lectura always, and es_vendedor, es_gerente,
\* es_administrador each for exactly its own role.
C7_Predicados ==
  \A u \in DOMAIN PerfilUsuario :
    LET p == PerfilUsuario[u] IN
    /\ tiene_permiso_escritura(p) <=> p.rol \in {gerente, administrador}
    /\ tiene_permiso_eliminacion(p) <=> p.rol = administrador
    /\ tiene_permiso_lectura(p)
    /\ es_vendedor(p) <=> p.rol = vendedor
    /\ es_gerente(p) <=> p.rol = gerente
    /\ es_administrador(p) <=> p.rol = administrador
    /\ p.rol = vendedor
         => ~tiene_permiso_escritura(p) /\ ~tiene_permiso_eliminacion(p)
    /\ p.rol = gerente
         => tiene_permiso_escritura(p) /\ ~tiene_permiso_eliminacion(p)
    /\ p.rol = administrador
         => tiene_permiso_escritura(p) /\ tiene_permiso_eliminacion(p)

\* the table holds a vendor that may not write, a manager that may write and
\* not delete, and a user promoted to administrator that may do both
C7_Witness ==
  /\ \E u \in DOMAIN PerfilUsuario :
       es_vendedor(PerfilUsuario[u]) /\ ~tiene_permiso_escritura(PerfilUsuario[u])
  /\ \E u \in DOMAIN PerfilUsuario :
       /\ es_gerente(PerfilUsuario[u])
       /\ tiene_permiso_escritura(PerfilUsuario[u])
       /\ ~tiene_permiso_eliminacion(PerfilUsuario[u])
  /\ \E u \in DOMAIN PerfilUsuario \ {"admin1"} :
       /\ es_administrador(PerfilUsuario[u])
       /\ tiene_permiso_escritura(PerfilUsuario[u])
       /\ tiene_permiso_eliminacion(PerfilUsuario[u])

\* the rows the caller would have with activo flipped
ConActivoOpuesto(r) ==
  [x \in DOMAIN r.filas |-> [r.filas[x] EXCEPT !.activo = ~r.filas[x].activo]]

\* C8: the outcome of every request of a caller with a Profile is the outcome
\* the gate gives for the same caller, rol and allow-list with activo
\* flipped; an administrador with activo = False passes an allow-list that
\* declares administrador.
C8_ActivoNoCuenta ==
  \A r \in Reqs :
    DOMAIN r.filas # {} =>
      LET g == Gate(r.user, ConActivoOpuesto(r), roles_permitidos) IN
      /\ g.llamar <=> Ejecutada(r)
      /\ g.messages = r.messages
      /\ ~g.llamar => g.response = r.response
      /\ (/\ ConPerfil(r)
          /\ PerfilDe(r).rol = administrador
          /\ ~PerfilDe(r).activo
          /\ administrador \in Permitidos) => Ejecutada(r)

\* an administrador that is no superuser and whose Profile has activo = False
\* was let through an allow-list that declares administrador
C8_Witness ==
  /\ administrador \in Permitidos
  /\ \E r \in Reqs :
       /\ ConPerfil(r)
       /\ PerfilDe(r).rol = administrador
       /\ ~PerfilDe(r).activo
       /\ Ejecutada(r)

\* C9: two requests of the same identity that found the same stored Profile
\* (or both none) get the same decision: both run the view, or both are
\* denied with the same notification and the same redirect.
C9_MismaDecision ==
  \A i, j \in DOMAIN requests :
    (/\ i < j
     /\ requests[i].user = requests[j].user
     /\ requests[i].filas = requests[j].filas)
    => /\ requests[i].llamadas = requests[j].llamadas
       /\ requests[i].messages = requests[j].messages
       /\ requests[i].llamadas = 0
            => requests[i].response = requests[j].response

\* two successive requests of one user with a Profile, the table untouched,
\* were both denied for insufficient role
C9_Witness ==
  /\ Len(requests) >= 2
  /\ ediciones = 0
  /\ requests[1].user = requests[2].user
  /\ ConPerfil(requests[1])
  /\ DenegadaPorRol(requests[1])
  /\ DenegadaPorRol(requests[2])

\* the same letter, whatever the case
MismaLetra(a, b) ==
  \/ a = b
  \/ \E q \in DOMAIN Minusculas : {a, b} = {Minusculas[q], Mayusculas[q]}

\* w is nombre with an upper-case first letter and the others lower-case
Capitalizada(w, nombre) ==
  /\ Len(w) = Len(nombre)
  /\ \A q \in 1..Len(w) :
       /\ MismaLetra(w[q], nombre[q])
       /\ q = 1 => \A n \in DOMAIN Minusculas : w[q] # Minusculas[n]
       /\ q > 1 => \A n \in DOMAIN Mayusculas : w[q] # Mayusculas[n]

\* where the k-th name starts in the names joined by ', '
RECURSIVE Desde(_, _)
Desde(roles, k) ==
  IF k = 1 THEN 1 ELSE Desde(roles, k - 1) + Len(roles[k - 1]) + 2

\* texto is the names of roles, capitalized, in order, joined by ', '
NombraEnOrden(texto, roles) ==
  IF Len(roles) = 0 THEN texto = <<>>
  ELSE /\ Len(texto) = Desde(roles, Len(roles)) + Len(roles[Len(roles)]) - 1
       /\ \A k \in DOMAIN roles :
            LET d == Desde(roles, k) IN
            /\ Capitalizada(SubSeq(texto, d, d + Len(roles[k]) - 1), roles[k])
            /\ k > 1 => SubSeq(texto, d - 2, d - 1) = <<",", " ">>

\* C10: on an insufficient-role denial the one notification is the
\* access-denied text followed by every declared role, capitalized, joined by
\* ', ' in the declared order, and the redirect goes to 'home'; a vendor
\* against (gerente, administrador) reads 'Gerente, Administrador'.
C10_NombraLosRoles ==
  \A r \in Reqs :
    (ConPerfil(r) /\ PerfilDe(r).rol \notin Permitidos) =>
      /\ DenegadaPorRol(r)
      /\ LET t == r.messages[1].message IN
         /\ NombraEnOrden(SubSeq(t, Len(MSG_ROL) + 1, Len(t)), roles_permitidos)
         /\ (PerfilDe(r).rol = vendedor
             /\ roles_permitidos = <<gerente, administrador>>)
            => Contiene(t,
                 <<"G", "e", "r", "e", "n", "t", "e", ",", " ", "A", "d", "m",
                   "i", "n", "i", "s", "t", "r", "a", "d", "o", "r">>)

\* vendedor1, a vendor, was denied by the allow-list (gerente, administrador)
\* and sent to 'home' with a text that reads 'Gerente, Administrador'
C10_Witness ==
  /\ roles_permitidos = <<gerente, administrador>>
  /\ \E r \in Reqs :
       /\ r.user.username = "vendedor1"
       /\ ConPerfil(r)
       /\ PerfilDe(r).rol = vendedor
       /\ r.response = [tipo |-> "redirect", valor |-> "home"]
       /\ Len(r.messages) = 1
       /\ Contiene(r.messages[1].message,
            <<"G", "e", "r", "e", "n", "t", "e", ",", " ", "A", "d", "m",
              "i", "n", "i", "s", "t", "r", "a", "d", "o", "r">>)

\* the views that create or edit a record
VistasEscritura ==
  {"producto_crear", "producto_editar", "categoria_crear", "categoria_editar",
   "proveedor_crear", "proveedor_editar", "cliente_crear", "cliente_editar"}

\* the views that delete a record
VistasEliminacion ==
  {"producto_eliminar", "categoria_eliminar", "proveedor_eliminar",
   "cliente_eliminar"}

\* the views that list records
VistasLista ==
  {"producto_lista", "categoria_lista", "proveedor_lista", "cliente_lista"}

\* C11: for a caller that is no superuser, a create or edit view is run only
\* if the caller has a Profile and tiene_permiso_escritura holds of it, and a
\* delete view only if tiene_permiso_eliminacion holds of it; no request of a
\* vendor gets a create, edit or delete view run.
C11_EscrituraYEliminacion ==
  \A r \in Reqs :
    (~r.user.is_superuser /\ Ejecutada(r)) =>
      /\ vista \in VistasEscritura =>
           DOMAIN r.filas # {} /\ tiene_permiso_escritura(PerfilDe(r))
      /\ vista \in VistasEliminacion =>
           DOMAIN r.filas # {} /\ tiene_permiso_eliminacion(PerfilDe(r))
      /\ vista \in VistasEscritura \cup VistasEliminacion =>
           DOMAIN r.filas # {} /\ ~es_vendedor(PerfilDe(r))

\* C12: for an authenticated caller whose Profile has one of the three roles,
\* every list view is run and never denied.
C12_TodosLeen ==
  \A r \in Reqs :
    (/\ vista \in VistasLista
     /\ r.user.is_authenticated
     /\ DOMAIN r.filas # {}
     /\ PerfilDe(r).rol \in Roles
     /\ tiene_permiso_lectura(PerfilDe(r)))
    => Ejecutada(r)

====
